---- MODULE Spec2Model ----
(***************************************************************************)
(* A model of the JSONEditor class of src/src/core.js: its lifecycle       *)
(* (constructor, load callback, destroy), the public value and validation  *)
(* operations, the change notification with its animation-frame callback,  *)
(* and the event registry.  The Validator, the SchemaLoader and the root   *)
(* editor live in other files of the repository; they are modelled from    *)
(* the specification (sections 4.1, 4.2 and 1).                            *)
(***************************************************************************)
EXTENDS Integers, Sequences, FiniteSets, TLC

VARIABLES
  ready,              \* this.ready
  destroyed,          \* this.destroyed (undefined read as FALSE)
  loadPending,        \* loader.load was called and its callback has not run yet
  options,            \* this.options: Null after destroy
  validator,          \* this.validator: Null (undefined) until the load callback
  root,               \* this.root: the root editor with its value
  validation_results, \* this.validation_results: the cached result
  firing_change,      \* this.firing_change (undefined read as FALSE)
  frames,             \* callbacks handed to window.requestAnimationFrame, in request order
  callbacks,          \* this.callbacks: event -> registered callbacks
  last,               \* what the last operation did: its outcome and its calls
  count,              \* history: onChange() calls, frames they requested, their validator
                      \* runs, and the runs of the ready frame that triggered 'ready'
  built,              \* history: loader.load calls, root editors and validators constructed
  unserved,           \* history: an onChange() made while ready awaits its validation
  earlyDestroy        \* history: destroy() was called before the load callback ran

vars == <<ready, destroyed, loadPending, options, validator, root, validation_results,
          firing_change, frames, callbacks, last, count, unserved, earlyDestroy, built>>

\* The editor's own fields, without the record of the last call.
editorState == <<ready, destroyed, loadPending, options, validator, root,
                 validation_results, firing_change, frames, callbacks>>

----------------------------------------------------------------------------
\* Bounds of the model.

\* onChange() notifications made while the editor is ready.
MaxChanges == 2
\* Registrations per event in the event registry.
MaxRegs == 1
\* Registrations per event when the registry is checked on its own.
MaxRegistered == 2

----------------------------------------------------------------------------
\* Values.

\* null / undefined of a field, and a field that is set.
Null == <<>>
Some(x) == <<x>>
Get(m) == m[1]

\* The values an integer root editor takes.
Values == {0, 1, 2}
\* The root schema of the document.
Schema == [type |-> "integer", maximum |-> 1]
\* The value a root editor holds when no startval is given.
DefaultValue == 0

Events == {"ready", "change"}
Listeners == {"f"}
\* The listeners when the registry is checked on its own.
RegistryListeners == {"f", "g"}
Undefined == "undefined"
ShowErrors == {"interaction", "never"}
CustomValidatorLists == {<<>>, <<"odd">>}

\* A Validation Error: path from the root, failing keyword.
Err(property) == [path |-> <<>>, property |-> property]

\* The built-in keyword checks of the Validator on the root schema.
BuiltinErrors(value) ==
  IF value > Schema.maximum THEN <<Err("maximum")>> ELSE <<>>

\* One custom validator: "odd" rejects odd numbers.
RunCustom(name, value) ==
  IF name = "odd" /\ value % 2 = 1 THEN <<Err("odd")>> ELSE <<>>

\* Custom validators run last, in order, their errors appended verbatim.
RECURSIVE CustomErrors(_, _)
CustomErrors(cvs, value) ==
  IF cvs = <<>> THEN <<>>
  ELSE RunCustom(Head(cvs), value) \o CustomErrors(Tail(cvs), value)

\* new Validator(this, null, validatorOptions, defaults)
NewValidator(validatorOptions) == [custom_validators |-> validatorOptions]

\* validator.validate(value): the ordered Validation Result.
ValidatorValidate(vd, value) ==
  BuiltinErrors(value) \o CustomErrors(vd.custom_validators, value)

\* createEditor(...) and root.setValue / root.getValue: the root editor holds a value.
NewRoot(value) == [value |-> value]
RootGetValue(r) == r.value
RootSetValue(r, value) == [r EXCEPT !.value = value]

----------------------------------------------------------------------------
\* The record of the last operation.

RetNone == [kind |-> "none", value |-> 0, errors |-> <<>>]
RetThis == [kind |-> "this", value |-> 0, errors |-> <<>>]
RetValue(v) == [kind |-> "value", value |-> v, errors |-> <<>>]
RetErrors(e) == [kind |-> "errors", value |-> 0, errors |-> e]

Effect(op, arg, threw, ret, ran, showed, triggered, called) ==
  [op |-> op, arg |-> arg, option |-> "", event |-> "", callback |-> "",
   threw |-> threw, ret |-> ret, ranValidator |-> ran, showed |-> showed,
   triggered |-> triggered, called |-> called]

\* The record of a setOption(option, value) call.
OfOption(effect, option) == [effect EXCEPT !.option = option]

\* The record of an on(event, callback), off(event, callback) or trigger(event) call.
OfEvent(effect, event, callback) == [effect EXCEPT !.event = event, !.callback = callback]

\* A call that returns without touching validator, root or listeners.
Returned(op, arg, ret) == Effect(op, arg, "none", ret, 0, Null, <<>>, <<>>)
\* A call that throws.
Threw(op, arg, error) == Effect(op, arg, error, RetNone, 0, Null, <<>>, <<>>)

\* trigger(event): the listener calls it makes, in order.
TriggerCalls(event) ==
  [i \in 1..Len(callbacks[event]) |-> <<event, callbacks[event][i]>>]

----------------------------------------------------------------------------
\* Init: the state the constructor leaves, loader.load called once.

Init ==
  /\ ready = FALSE
  /\ destroyed = FALSE
  /\ loadPending = TRUE
  /\ \E se \in ShowErrors, cv \in CustomValidatorLists, sv \in {Null, Some(2)} :
       options = Some([show_errors |-> se, custom_validators |-> cv, startval |-> sv])
  /\ validator = Null
  /\ root = Null
  /\ validation_results = Null
  /\ firing_change = FALSE
  /\ frames = <<>>
  /\ callbacks = [e \in Events |-> <<>>]
  /\ last = Returned("constructor", Null, RetNone)
  /\ count = [notified |-> 0, requested |-> 0, changeRuns |-> 0, readyRuns |-> 0]
  /\ built = [loads |-> 1, roots |-> 0, validators |-> 0]
  /\ unserved = FALSE
  /\ earlyDestroy = FALSE

----------------------------------------------------------------------------
\* onChange(): the notification every mutation makes.

\* OnChange without the check of firing_change: every call requests a frame.
OnChangeAlwaysRequests ==
  IF ~ready
  THEN UNCHANGED <<firing_change, frames, count, unserved>>
  ELSE /\ unserved' = TRUE
       /\ count' = [count EXCEPT !.notified = @ + 1, !.requested = @ + 1]
       /\ firing_change' = TRUE
       /\ frames' = Append(frames, "change")

\* OnChange without the check of ready: a frame is requested at any time.
OnChangeUnguarded ==
  /\ unserved' = (unserved \/ ready)
  /\ IF firing_change
     THEN /\ count' = [count EXCEPT !.notified = @ + (IF ready THEN 1 ELSE 0)]
          /\ UNCHANGED <<firing_change, frames>>
     ELSE /\ count' = [count EXCEPT !.notified = @ + (IF ready THEN 1 ELSE 0),
                                    !.requested = @ + (IF ready THEN 1 ELSE 0)]
          /\ firing_change' = TRUE
          /\ frames' = Append(frames, "change")

OnChange ==
  IF ~ready
  THEN UNCHANGED <<firing_change, frames, count, unserved>>
  ELSE /\ unserved' = TRUE
       /\ IF firing_change
          THEN /\ count' = [count EXCEPT !.notified = @ + 1]
               /\ UNCHANGED <<firing_change, frames>>
          ELSE /\ count' = [count EXCEPT !.notified = @ + 1, !.requested = @ + 1]
               /\ firing_change' = TRUE
               /\ frames' = Append(frames, "change")

\* Room for one more notification within the bound.
CanNotify == ready => count.notified < MaxChanges

----------------------------------------------------------------------------
\* The load callback and the animation frames.

LoadCallback ==
  /\ loadPending
  /\ loadPending' = FALSE
  /\ LET o == Get(options)
         vd == NewValidator(o.custom_validators)
         r == NewRoot(IF o.startval # Null THEN Get(o.startval) ELSE DefaultValue)
         res == ValidatorValidate(vd, RootGetValue(r))
     IN /\ validator' = Some(vd)
        /\ root' = Some(r)
        /\ validation_results' = Some(res)
        /\ last' = Effect("loadCallback", Null, "none", RetNone, 1, Some(res), <<>>, <<>>)
  /\ ready' = TRUE
  /\ frames' = Append(frames, "ready")
  /\ built' = [built EXCEPT !.roots = @ + 1, !.validators = @ + 1]
  /\ UNCHANGED <<destroyed, options, firing_change, callbacks, count, unserved, earlyDestroy>>

\* ReadyFrame with the events triggered before the ready check.
ReadyFrameTriggersFirst ==
  /\ frames # <<>>
  /\ Head(frames) = "ready"
  /\ frames' = Tail(frames)
  /\ IF ~ready
     THEN /\ last' = Effect("readyFrame", Null, "none", RetNone, 0, Null,
                            <<"ready", "change">>,
                            TriggerCalls("ready") \o TriggerCalls("change"))
          /\ UNCHANGED <<validation_results, count>>
     ELSE LET res == ValidatorValidate(Get(validator), RootGetValue(Get(root)))
          IN /\ validation_results' = Some(res)
             /\ count' = [count EXCEPT !.readyRuns = @ + 1]
             /\ last' = Effect("readyFrame", Null, "none", RetNone, 1, Some(res),
                               <<"ready", "change">>,
                               TriggerCalls("ready") \o TriggerCalls("change"))
  /\ UNCHANGED <<ready, destroyed, loadPending, options, validator, root, firing_change,
                 callbacks, unserved, earlyDestroy, built>>

ReadyFrame ==
  /\ frames # <<>>
  /\ Head(frames) = "ready"
  /\ frames' = Tail(frames)
  /\ IF ~ready
     THEN /\ last' = Returned("readyFrame", Null, RetNone)
          /\ UNCHANGED <<validation_results, count>>
     ELSE LET res == ValidatorValidate(Get(validator), RootGetValue(Get(root)))
          IN /\ validation_results' = Some(res)
             /\ count' = [count EXCEPT !.readyRuns = @ + 1]
             /\ last' = Effect("readyFrame", Null, "none", RetNone, 1, Some(res),
                               <<"ready", "change">>,
                               TriggerCalls("ready") \o TriggerCalls("change"))
  /\ UNCHANGED <<ready, destroyed, loadPending, options, validator, root, firing_change,
                 callbacks, unserved, earlyDestroy, built>>

\* ChangeFrame without the reset of firing_change.
ChangeFrameKeepsFiring ==
  /\ frames # <<>>
  /\ Head(frames) = "change"
  /\ frames' = Tail(frames)
  /\ UNCHANGED firing_change
  /\ IF ~ready
     THEN /\ last' = Returned("changeFrame", Null, RetNone)
          /\ UNCHANGED <<validation_results, count, unserved>>
     ELSE LET res == ValidatorValidate(Get(validator), RootGetValue(Get(root)))
              shown == IF Get(options).show_errors # "never" THEN res ELSE <<>>
          IN /\ validation_results' = Some(res)
             /\ count' = [count EXCEPT !.changeRuns = @ + 1]
             /\ unserved' = FALSE
             /\ last' = Effect("changeFrame", Null, "none", RetNone, 1, Some(shown),
                               <<"change">>, TriggerCalls("change"))
  /\ UNCHANGED <<ready, destroyed, loadPending, options, validator, root, callbacks,
                 earlyDestroy, built>>

\* ChangeFrame with a second validator run for the errors it shows.
ChangeFrameValidatesTwice ==
  /\ frames # <<>>
  /\ Head(frames) = "change"
  /\ frames' = Tail(frames)
  /\ firing_change' = FALSE
  /\ IF ~ready
     THEN /\ last' = Returned("changeFrame", Null, RetNone)
          /\ UNCHANGED <<validation_results, count, unserved>>
     ELSE LET res == ValidatorValidate(Get(validator), RootGetValue(Get(root)))
              shown == IF Get(options).show_errors # "never"
                       THEN ValidatorValidate(Get(validator), RootGetValue(Get(root)))
                       ELSE <<>>
          IN /\ validation_results' = Some(res)
             /\ count' = [count EXCEPT !.changeRuns = @ + 2]
             /\ unserved' = FALSE
             /\ last' = Effect("changeFrame", Null, "none", RetNone, 2, Some(shown),
                               <<"change">>, TriggerCalls("change"))
  /\ UNCHANGED <<ready, destroyed, loadPending, options, validator, root, callbacks,
                 earlyDestroy, built>>

ChangeFrame ==
  /\ frames # <<>>
  /\ Head(frames) = "change"
  /\ frames' = Tail(frames)
  /\ firing_change' = FALSE
  /\ IF ~ready
     THEN /\ last' = Returned("changeFrame", Null, RetNone)
          /\ UNCHANGED <<validation_results, count, unserved>>
     ELSE LET res == ValidatorValidate(Get(validator), RootGetValue(Get(root)))
              shown == IF Get(options).show_errors # "never" THEN res ELSE <<>>
          IN /\ validation_results' = Some(res)
             /\ count' = [count EXCEPT !.changeRuns = @ + 1]
             /\ unserved' = FALSE
             /\ last' = Effect("changeFrame", Null, "none", RetNone, 1, Some(shown),
                               <<"change">>, TriggerCalls("change"))
  /\ UNCHANGED <<ready, destroyed, loadPending, options, validator, root, callbacks,
                 earlyDestroy, built>>

----------------------------------------------------------------------------
\* The public operations.

GetValue ==
  /\ IF ~ready
     THEN last' = Threw("getValue", Null, "NotReady")
     ELSE last' = Returned("getValue", Null, RetValue(RootGetValue(Get(root))))
  /\ UNCHANGED <<editorState, count, unserved, earlyDestroy, built>>

SetValue(value) ==
  /\ CanNotify
  /\ IF ~ready
     THEN /\ last' = Threw("setValue", Some(value), "NotReady")
          /\ UNCHANGED <<root, firing_change, frames, count, unserved>>
     ELSE /\ root' = Some(RootSetValue(Get(root), value))
          /\ OnChange
          /\ last' = Returned("setValue", Some(value), RetThis)
  /\ UNCHANGED <<ready, destroyed, loadPending, options, validator, validation_results,
                 callbacks, earlyDestroy, built>>

\* ValidateValue with a non-empty result thrown instead of returned.
ValidateValueThrowsErrors(value) ==
  /\ IF ~ready
     THEN last' = Threw("validate", Some(value), "NotReady")
     ELSE IF ValidatorValidate(Get(validator), value) # <<>>
          THEN last' = Effect("validate", Some(value), "ValidationError", RetNone,
                              1, Null, <<>>, <<>>)
          ELSE last' = Effect("validate", Some(value), "none", RetErrors(<<>>),
                              1, Null, <<>>, <<>>)
  /\ UNCHANGED <<editorState, count, unserved, earlyDestroy, built>>

\* ValidateValue with the result of the custom value written to the cache.
ValidateValueCaches(value) ==
  /\ IF ~ready
     THEN /\ last' = Threw("validate", Some(value), "NotReady")
          /\ UNCHANGED validation_results
     ELSE /\ validation_results' = Some(ValidatorValidate(Get(validator), value))
          /\ last' = Effect("validate", Some(value), "none",
                            RetErrors(ValidatorValidate(Get(validator), value)),
                            1, Null, <<>>, <<>>)
  /\ UNCHANGED <<ready, destroyed, loadPending, options, validator, root, firing_change,
                 frames, callbacks, count, unserved, earlyDestroy, built>>

ValidateValue(value) ==
  /\ IF ~ready
     THEN last' = Threw("validate", Some(value), "NotReady")
     ELSE last' = Effect("validate", Some(value), "none",
                         RetErrors(ValidatorValidate(Get(validator), value)),
                         1, Null, <<>>, <<>>)
  /\ UNCHANGED <<editorState, count, unserved, earlyDestroy, built>>

\* ValidateCurrent without the ready check: the cache is returned as it is.
ValidateCurrentUnguarded ==
  /\ IF validation_results = Null
     THEN last' = Returned("validate", Null, RetNone)
     ELSE last' = Returned("validate", Null, RetErrors(Get(validation_results)))
  /\ UNCHANGED <<editorState, count, unserved, earlyDestroy, built>>

ValidateCurrent ==
  /\ IF ~ready
     THEN last' = Threw("validate", Null, "NotReady")
     ELSE last' = Returned("validate", Null, RetErrors(Get(validation_results)))
  /\ UNCHANGED <<editorState, count, unserved, earlyDestroy, built>>

\* Destroy without the assignment of destroyed.
DestroyUnmarked ==
  /\ IF destroyed \/ ~ready
     THEN UNCHANGED <<ready, destroyed, options, validator, root, validation_results>>
     ELSE /\ options' = Null
          /\ root' = Null
          /\ validator' = Null
          /\ validation_results' = Null
          /\ ready' = FALSE
          /\ UNCHANGED destroyed
  /\ earlyDestroy' = (earlyDestroy \/ loadPending)
  /\ last' = Returned("destroy", Null, RetNone)
  /\ UNCHANGED <<loadPending, firing_change, frames, callbacks, count, unserved, built>>

Destroy ==
  /\ IF destroyed \/ ~ready
     THEN UNCHANGED <<ready, destroyed, options, validator, root, validation_results>>
     ELSE /\ options' = Null
          /\ root' = Null
          /\ validator' = Null
          /\ validation_results' = Null
          /\ ready' = FALSE
          /\ destroyed' = TRUE
  /\ earlyDestroy' = (earlyDestroy \/ loadPending)
  /\ last' = Returned("destroy", Null, RetNone)
  /\ UNCHANGED <<loadPending, firing_change, frames, callbacks, count, unserved, built>>

\* Room for one more registration of event within the bound max.
Room(event, max) == Len(callbacks[event]) < max

On(event, callback) ==
  /\ callbacks' = [callbacks EXCEPT ![event] = Append(@, callback)]
  /\ last' = OfEvent(Returned("on", Null, RetThis), event, callback)
  /\ UNCHANGED <<ready, destroyed, loadPending, options, validator, root,
                 validation_results, firing_change, frames, count, unserved, earlyDestroy, built>>

\* Without that drops the first registration of callback only.
RECURSIVE WithoutFirst(_, _)
WithoutFirst(cbs, callback) ==
  IF cbs = <<>> THEN <<>>
  ELSE IF Head(cbs) = callback THEN Tail(cbs)
       ELSE <<Head(cbs)>> \o WithoutFirst(Tail(cbs), callback)

\* The registrations of cbs that are not callback, in order.
RECURSIVE Without(_, _)
Without(cbs, callback) ==
  IF cbs = <<>> THEN <<>>
  ELSE IF Head(cbs) = callback THEN Without(Tail(cbs), callback)
       ELSE <<Head(cbs)>> \o Without(Tail(cbs), callback)

Off(event, callback) ==
  /\ IF event # Undefined /\ callback # Undefined
     THEN callbacks' = [callbacks EXCEPT ![event] = Without(@, callback)]
     ELSE IF event # Undefined
          THEN callbacks' = [callbacks EXCEPT ![event] = <<>>]
          ELSE callbacks' = [e \in Events |-> <<>>]
  /\ last' = OfEvent(Returned("off", Null, RetThis), event, callback)
  /\ UNCHANGED <<ready, destroyed, loadPending, options, validator, root,
                 validation_results, firing_change, frames, count, unserved, earlyDestroy, built>>

Trigger(event) ==
  /\ last' = OfEvent(Effect("trigger", Null, "none", RetThis, 0, Null, <<event>>,
                           TriggerCalls(event)),
                    event, Undefined)
  /\ UNCHANGED <<editorState, count, unserved, earlyDestroy, built>>

\* SetOption with every option accepted.
SetOptionAny(option, value) ==
  /\ CanNotify
  /\ IF options = Null
     THEN /\ last' = OfOption(Threw("setOption", Null, "TypeError"), option)
          /\ UNCHANGED <<options, firing_change, frames, count, unserved>>
     ELSE /\ options' = Some([Get(options) EXCEPT ![option] = value])
          /\ OnChange
          /\ last' = OfOption(Returned("setOption", Null, RetThis), option)
  /\ UNCHANGED <<ready, destroyed, loadPending, validator, root, validation_results,
                 callbacks, earlyDestroy, built>>

\* SetOption with the validator built again for the new option.
SetOptionRebuilds(option, value) ==
  /\ option = "show_errors" => CanNotify
  /\ IF option = "show_errors"
     THEN IF options = Null
          THEN /\ last' = OfOption(Threw("setOption", Null, "TypeError"), option)
               /\ UNCHANGED <<options, validator, built, firing_change, frames, count,
                              unserved>>
          ELSE /\ options' = Some([Get(options) EXCEPT !.show_errors = value])
               /\ validator' = Some(NewValidator(Get(options).custom_validators))
               /\ built' = [built EXCEPT !.validators = @ + 1]
               /\ OnChange
               /\ last' = OfOption(Returned("setOption", Null, RetThis), option)
     ELSE /\ last' = OfOption(Threw("setOption", Null, "OptionFixed"), option)
          /\ UNCHANGED <<options, validator, built, firing_change, frames, count, unserved>>
  /\ UNCHANGED <<ready, destroyed, loadPending, root, validation_results,
                 callbacks, earlyDestroy>>

SetOption(option, value) ==
  /\ option = "show_errors" => CanNotify
  /\ IF option = "show_errors"
     THEN IF options = Null
          THEN /\ last' = OfOption(Threw("setOption", Null, "TypeError"), option)
               /\ UNCHANGED <<options, firing_change, frames, count, unserved>>
          ELSE /\ options' = Some([Get(options) EXCEPT !.show_errors = value])
               /\ OnChange
               /\ last' = OfOption(Returned("setOption", Null, RetThis), option)
     ELSE /\ last' = OfOption(Threw("setOption", Null, "OptionFixed"), option)
          /\ UNCHANGED <<options, firing_change, frames, count, unserved>>
  /\ UNCHANGED <<ready, destroyed, loadPending, validator, root, validation_results,
                 callbacks, earlyDestroy, built>>

\* onChange() called by an editor of the tree after a mutation.
OnChangeCall ==
  /\ CanNotify
  /\ OnChange
  /\ last' = Returned("onChange", Null, IF ready THEN RetThis ELSE RetNone)
  /\ UNCHANGED <<ready, destroyed, loadPending, options, validator, root,
                 validation_results, callbacks, earlyDestroy, built>>

----------------------------------------------------------------------------

Next ==
  \/ LoadCallback
  \/ ReadyFrame
  \/ ChangeFrame
  \/ GetValue
  \/ \E v \in Values : SetValue(v)
  \/ \E v \in Values : ValidateValue(v)
  \/ ValidateCurrent
  \/ Destroy
  \/ \E e \in Events, cb \in Listeners : Room(e, MaxRegs) /\ On(e, cb)
  \/ \E e \in Events \cup {Undefined}, cb \in Listeners \cup {Undefined} : Off(e, cb)
  \/ \E e \in Events : Trigger(e)
  \/ \E se \in ShowErrors : SetOption("show_errors", se)
  \/ \E cv \in CustomValidatorLists : SetOption("custom_validators", cv)
  \/ OnChangeCall

Spec == Init /\ [][Next]_vars

\* Animation frames that were requested are delivered.
FairSpec == Spec /\ WF_vars(ReadyFrame) /\ WF_vars(ChangeFrame)

\* The event registry on its own: on, off and trigger with two listeners, before
\* and after the load callback, the ready frame and destroy.
RegistryInit ==
  /\ Init
  /\ options = Some([show_errors |-> "interaction", custom_validators |-> <<>>,
                     startval |-> Null])

RegistryNext ==
  \/ \E e \in Events, cb \in RegistryListeners : Room(e, MaxRegistered) /\ On(e, cb)
  \/ \E e \in Events \cup {Undefined}, cb \in RegistryListeners \cup {Undefined} : Off(e, cb)
  \/ \E e \in Events : Trigger(e)
  \/ LoadCallback
  \/ ReadyFrame
  \/ Destroy

RegistrySpec == RegistryInit /\ [][RegistryNext]_vars

----------------------------------------------------------------------------
\* Properties.

\* The result of validating the root's value now.
CurrentResult == ValidatorValidate(Get(validator), RootGetValue(Get(root)))

\* The frames requested by onChange that are still pending.
PendingChanges == Len(SelectSeq(frames, LAMBDA f : f = "change"))

FrameOps == {"readyFrame", "changeFrame"}

\* C1: every onChange() made while the editor is ready is served: as long as the
\* editor is not destroyed a frame requested by onChange is pending for it, that
\* frame, when delivered to a ready editor, runs the validator on the root's value
\* of that moment, replaces validation_results by the result and triggers
\* 'change'; with frames delivered fairly the notification is eventually served
\* unless the editor is destroyed first.
C1_Revalidated ==
  /\ []((unserved /\ ~destroyed) => (firing_change /\ PendingChanges = 1))
  /\ [][(last'.op = "changeFrame" /\ frames' # frames /\ ready)
          => /\ validation_results' = Some(CurrentResult)
             /\ last'.ranValidator = 1
             /\ last'.triggered = <<"change">>
             /\ ~unserved']_vars
  /\ (unserved ~> (~unserved \/ destroyed))

C1_Witness ==
  /\ last.op = "changeFrame"
  /\ ready
  /\ count.notified = 2
  /\ count.changeRuns = 1
  /\ ~unserved
  /\ validation_results = Some(CurrentResult)
  /\ validation_results # Some(<<>>)

\* C2 as claimed: once every frame has been delivered to a ready editor, the
\* validator has run once for each onChange() notification.
C2_OncePerNotification ==
  (ready /\ frames = <<>>) => count.changeRuns = count.notified

\* C2 as amended: the validator runs once for each frame onChange requested, and
\* notifications made while a frame is pending request none: while the editor is
\* not destroyed the runs and the pending frames add up to the frames requested,
\* which are at most the notifications.
C2_OncePerFrame ==
  /\ count.changeRuns <= count.requested
  /\ count.requested <= count.notified
  /\ ~destroyed => count.changeRuns + PendingChanges = count.requested

C2_Witness ==
  /\ ready
  /\ frames = <<>>
  /\ count.notified = 2
  /\ count.requested = 1
  /\ count.changeRuns = 1

\* C3 as claimed: when destroy() was called before the load callback, the callback
\* is a no-op: no validator, no root editor, ready stays false, no validation
\* result, and no frame triggers 'ready' or 'change'.
C3_EarlyDestroyCancels ==
  earlyDestroy =>
    /\ ~ready
    /\ validator = Null
    /\ root = Null
    /\ validation_results = Null
    /\ built.roots = 0
    /\ built.validators = 0
    /\ last.op \in FrameOps => last.triggered = <<>>

\* C4: once destroy() has completed, a frame that was pending runs no validator,
\* shows no errors, leaves validation_results alone and triggers no event.
C4_FramesAfterDestroy ==
  [][(destroyed /\ frames' # frames /\ last'.op \in FrameOps)
       => /\ last'.ranValidator = 0
          /\ last'.showed = Null
          /\ last'.triggered = <<>>
          /\ last'.called = <<>>
          /\ validation_results' = validation_results]_vars

C4_Witness ==
  /\ destroyed
  /\ last.op = "changeFrame"
  /\ callbacks["change"] # <<>>
  /\ count.requested >= 1

\* C5 as claimed: validate(value) returns a validation result and never throws,
\* at every point of the editor's lifetime.
C5_NeverThrows ==
  (last.op = "validate" /\ last.arg # Null)
    => (last.threw = "none" /\ last.ret.kind = "errors")

\* C5 as amended: validate(value) returns the (possibly empty) validation result
\* as data and does not throw whenever the editor is ready; before the load
\* callback has run and after destroy it throws the 'not ready yet' error.
C5_ReturnsWhenReady ==
  (last.op = "validate" /\ last.arg # Null)
    => IF ready
       THEN /\ last.threw = "none"
            /\ last.ret.kind = "errors"
            /\ last.ret.errors = ValidatorValidate(Get(validator), Get(last.arg))
       ELSE last.threw = "NotReady"

C5_Witness ==
  /\ last.op = "validate"
  /\ last.arg # Null
  /\ ready
  /\ last.threw = "none"
  /\ last.ret.errors # <<>>

\* C6: getValue(), setValue(v) and validate(...) throw 'not ready yet' exactly
\* when ready is false, and then leave the editor's state as it was.
ReadyOps == {"getValue", "setValue", "validate"}

C6_NotReadyThrows ==
  [][(last'.op \in ReadyOps)
       => IF ~ready
          THEN /\ last'.threw = "NotReady"
               /\ UNCHANGED editorState
          ELSE last'.threw # "NotReady"]_vars

C6_Witness ==
  /\ last.op = "setValue"
  /\ last.threw = "NotReady"
  /\ destroyed
  /\ frames # <<>>

\* C7: validate(value) with an explicit value returns the validator's result for
\* that value and leaves the cached result, the root value, firing_change and the
\* pending frames unchanged; validate() then returns the cached result.
C7_ValidateKeepsCache ==
  [][/\ (last'.op = "validate" /\ last'.arg # Null /\ ready)
          => /\ last'.ret = RetErrors(ValidatorValidate(Get(validator), Get(last'.arg)))
             /\ UNCHANGED <<validation_results, root, firing_change, frames>>
     /\ (last'.op = "validate" /\ last'.arg = Null /\ ready)
          => last'.ret = RetErrors(Get(validation_results))]_vars

C7_Witness ==
  /\ last.op = "validate"
  /\ last.arg # Null
  /\ ready
  /\ last.ret.errors # Get(validation_results)
  /\ validation_results = Some(CurrentResult)

\* C8: setOption with an option other than 'show_errors' throws and leaves
\* options, validation_results and the pending-change state unchanged; no
\* operation changes the custom validators of the options, and the validator
\* keeps the ones the options held when it was constructed.
C8_OptionsFixed ==
  /\ [][(last'.op = "setOption" /\ last'.option # "show_errors")
          => /\ last'.threw = "OptionFixed"
             /\ UNCHANGED <<options, validation_results, firing_change, frames>>]_vars
  /\ [][(options # Null /\ options' # Null)
          => Get(options').custom_validators = Get(options).custom_validators]_vars
  /\ [](validator # Null
          => /\ options # Null
             /\ Get(validator).custom_validators = Get(options).custom_validators)

C8_Witness ==
  /\ last.op = "setOption"
  /\ last.threw = "OptionFixed"
  /\ ready
  /\ Get(validator).custom_validators = <<"odd">>
  /\ firing_change

\* C9: loader.load is called once per instance, and the root editor and the
\* validator are constructed at most once, by the load callback only.
C9_LoadedOnce ==
  /\ built.loads = 1
  /\ built.roots = (IF loadPending THEN 0 ELSE 1)
  /\ built.validators = (IF loadPending THEN 0 ELSE 1)

C9_Witness ==
  /\ destroyed
  /\ built = [loads |-> 1, roots |-> 1, validators |-> 1]
  /\ count.notified >= 1
  /\ last.op = "setOption"

\* C10 as claimed: whenever the editor is ready, the cached validation_results is
\* the result of validating the root's current value.
C10_CacheIsCurrent ==
  ready => validation_results = Some(CurrentResult)

\* A step of an operation that calls onChange().
NotifyStep ==
  \/ last'.op = "onChange"
  \/ last'.op = "setValue" /\ last'.threw = "none"
  \/ last'.op = "setOption" /\ last'.option = "show_errors" /\ last'.threw = "none"

\* C11 as claimed: at most one frame requested by onChange is pending, and
\* firing_change is true exactly when one is; an onChange() made while one is
\* pending requests none, and an onChange() made after that frame has run
\* requests a new one.
C11_AlwaysRequestsAfterFrame ==
  /\ [](PendingChanges <= 1 /\ (firing_change <=> PendingChanges = 1))
  /\ [][NotifyStep
          => IF firing_change
             THEN UNCHANGED <<frames, firing_change>>
             ELSE count.requested >= 1
                    => (frames' = Append(frames, "change") /\ firing_change')]_vars

\* C11 as amended: the same, with the new frame requested only by an onChange()
\* made while the editor is ready; an onChange() made while it is not ready
\* (before the load callback, after destroy) requests no frame.
C11_Coalescing ==
  /\ [](PendingChanges <= 1 /\ (firing_change <=> PendingChanges = 1))
  /\ [][NotifyStep
          => IF ready /\ ~firing_change
             THEN frames' = Append(frames, "change") /\ firing_change'
             ELSE UNCHANGED <<frames, firing_change>>]_vars

C11_Witness ==
  /\ last.op = "setValue"
  /\ count.notified = 2
  /\ count.requested = 2
  /\ count.changeRuns = 1
  /\ firing_change
  /\ PendingChanges = 1

\* C12: ready implies that validator and root are set and destroyed is not;
\* ready becomes true only in the load callback; destroy() on a ready editor sets
\* ready to false and destroyed to true; destroy() on a destroyed editor changes
\* nothing; once destroyed, the editor stays destroyed and never becomes ready.
C12_Lifecycle ==
  /\ [](ready => (validator # Null /\ root # Null /\ ~destroyed))
  /\ [][(~ready /\ ready') => (last'.op = "loadCallback" /\ loadPending)]_vars
  /\ [][(last'.op = "destroy" /\ ready)
          => (~ready' /\ destroyed' /\ validator' = Null /\ root' = Null)]_vars
  /\ [][(last'.op = "destroy" /\ destroyed) => UNCHANGED editorState]_vars
  /\ [][destroyed => (destroyed' /\ ~ready')]_vars

\* A second destroy(): the frame that was pending at the first one has been dropped.
C12_Witness ==
  /\ last.op = "destroy"
  /\ destroyed
  /\ ~ready
  /\ frames = <<>>
  /\ count.requested = 1
  /\ count.changeRuns = 0

\* The frame requested by the load callback is pending.
ReadyPending == Len(SelectSeq(frames, LAMBDA f : f = "ready"))

\* C13: the editor triggers 'ready' at most once, only in the frame the load
\* callback requested and only while ready is true, with the first 'change'
\* triggered right after it in the same frame; no frame requested by onChange
\* runs, validates or triggers 'change' before that frame.
C13_ReadyFirst ==
  /\ [](count.readyRuns <= 1)
  /\ [](count.changeRuns > 0 => (count.readyRuns = 1 /\ ReadyPending = 0))
  /\ [][(last'.op \in FrameOps /\ frames' # frames /\ last'.triggered # <<>>)
          => /\ ready
             /\ IF count.readyRuns = 0
                THEN /\ last'.op = "readyFrame"
                     /\ last'.triggered = <<"ready", "change">>
                     /\ count'.readyRuns = 1
                ELSE /\ last'.op = "changeFrame"
                     /\ last'.triggered = <<"change">>]_vars
  /\ [][(last'.op = "changeFrame" /\ frames' # frames)
          => (~loadPending /\ ReadyPending = 0)]_vars

C13_Witness ==
  /\ last.op = "changeFrame"
  /\ last.triggered = <<"change">>
  /\ count.readyRuns = 1
  /\ count.changeRuns = 1
  /\ callbacks["ready"] # <<>>

\* The registrations in cbs other than those of callback, in order.
Kept(cbs, callback) == SelectSeq(cbs, LAMBDA c : c # callback)

\* C14: on(event, cb) adds one registration of cb at the end of event's list and
\* touches no other event; off(event, cb) removes every registration of cb under
\* event and nothing else, off(event) all registrations of event only, off() all
\* registrations of all events; no other operation changes the registry; and
\* trigger(event) calls the registrations of event, each once, in registration
\* order, and no callback of another event.
C14_Registry ==
  /\ [][last'.op = "on"
          => \A e \in Events :
               callbacks'[e] = IF e = last'.event
                               THEN callbacks[e] \o <<last'.callback>>
                               ELSE callbacks[e]]_vars
  /\ [][last'.op = "off"
          => \A e \in Events :
               callbacks'[e] =
                 IF last'.event = Undefined THEN <<>>
                 ELSE IF e # last'.event THEN callbacks[e]
                 ELSE IF last'.callback = Undefined THEN <<>>
                 ELSE Kept(callbacks[e], last'.callback)]_vars
  /\ [][last'.op \notin {"on", "off"} => callbacks' = callbacks]_vars
  /\ [](last.op = "trigger"
          => /\ Len(last.called) = Len(callbacks[last.event])
             /\ \A i \in 1..Len(last.called) :
                  last.called[i] = <<last.event, callbacks[last.event][i]>>)

C14_Witness ==
  /\ last.op = "trigger"
  /\ last.called = << <<"change", "g">>, <<"change", "f">> >>
  /\ callbacks["ready"] = <<"f", "f">>
  /\ destroyed

====
